---- MODULE Spec2Model ----
(***************************************************************************)
(* Model of the SonarCloud metrics-collection pipeline.                    *)
(*   sonar_results.py : main() and the functions it calls                  *)
(*   sonar_to_db.py   : the single-project upsert script                   *)
(* The remote service and the PostgreSQL server are the environment: each  *)
(* request and each statement has a nondeterministic outcome drawn from    *)
(* the outcomes the code distinguishes.                                    *)
(***************************************************************************)
EXTENDS Integers, Sequences, FiniteSets, TLC

\* ---------------------------------------------------------------- bounds
\* largest number of entries of SONAR_PROJECTS explored
MaxProjects == 2

\* ------------------------------------------------------------- constants
\* Python None / SQL NULL
NoValue == "None"

\* the metric catalog (sonar_results.py lists 43 keys; the model keeps the
\* first two, which are also the two keys sonar_to_db.py requests)
metrics == <<"coverage", "bugs">>

\* the set of catalog keys
MetricSet == {metrics[k] : k \in 1..Len(metrics)}

\* a key the remote service may return although it was not requested
ExtraKey == "ncloc_language_distribution"

\* SONAR_PROJECTS with n entries
KeyNames == <<"org_p1", "org_p2", "org_p3", "org_p4">>
RepoNames == <<"org/p1", "org/p2", "org/p3", "org/p4">>
SONAR_PROJECTS(n) ==
  [i \in 1..n |-> [project_key |-> KeyNames[i], repo_name |-> RepoNames[i]]]

\* ----------------------------------------------------- remote responses
\* values the measures endpoint reports for a metric
MetricValues == {"0", "87.5"}

\* component.measures of a measures response, as the dict the loop builds
MeasureDicts ==
  UNION {[S -> MetricValues] : S \in SUBSET (MetricSet \cup {ExtraKey})}

\* dict.get(key) with the default None
DictGet(d, key) == IF key \in DOMAIN d THEN d[key] ELSE NoValue

\* the empty dict
EmptyDict == [k \in {} |-> NoValue]

\* outcomes of GET /api/projects/search
ExistsResponses == {"components", "no_components", "non_200", "exception"}

\* Runs over a single project draw every response below; runs over several
\* projects draw each project's responses from the smaller sets (one branch,
\* one measures body, a date that is always present, a quality gate body
\* that can be read): there a project still ends in each of the ways the
\* loop distinguishes (not found, no analysis, exception, record).

\* outcomes of GET /api/project_analyses/search
ValidDate == "2024-01-01T10:00:00Z"
DateInputs(n) ==
  IF n = 1 THEN {ValidDate, "not-a-date", NoValue}
  ELSE {ValidDate, "not-a-date"}
BranchInputs(n) == IF n = 1 THEN {NoValue, "develop"} ELSE {NoValue}
AnalysisResponses(n) ==
  [kind : {"analyses"}, date : DateInputs(n), branch : BranchInputs(n)]
    \cup [kind : {"no_analyses", "request_error", "raise"},
          date : {NoValue}, branch : {NoValue}]

\* outcomes of GET /api/measures/component
FullDict == [m \in MetricSet |-> "87.5"]
MeasuresResponses(n) ==
  [kind : {"ok"}, dict : IF n = 1 THEN MeasureDicts ELSE {FullDict}]
    \cup [kind : {"401", "404", "request_error", "value_error", "raise"},
          dict : {EmptyDict}]

\* outcomes of GET /api/qualitygates/project_status
QualityGateResponses(n) ==
  [kind : {"status"}, status : {"OK"}]
    \cup [kind : IF n = 1 THEN {"no_status", "request_error", "raise"}
                 ELSE {"request_error"},
          status : {NoValue}]

\* --------------------------------------------------- SonarCloud functions
\* mutation: any 200 response counts as "the project exists"
verify_project_exists_any200(ex) == ex \in {"components", "no_components"}

verify_project_exists(ex) == ex = "components"

\* mutation: an info record whatever the response holds
get_latest_analysis_stub(an) ==
  [kind |-> "info", date |-> an.date,
   branch |-> IF an.branch = NoValue THEN "main" ELSE an.branch]

\* None is modelled by the record of kind "none"
get_latest_analysis(an) ==
  IF an.kind = "analyses"
  THEN [kind |-> "info", date |-> an.date,
        branch |-> IF an.branch = NoValue THEN "main" ELSE an.branch]
  ELSE [kind |-> "none", date |-> NoValue, branch |-> NoValue]

get_project_measures(ms) ==
  IF ms.kind = "ok" THEN ms.dict ELSE EmptyDict

get_quality_gate_status(qg) ==
  CASE qg.kind = "status" -> qg.status
    [] qg.kind = "no_status" -> "UNKNOWN"
    [] OTHER -> "ERROR"

\* datetime.fromisoformat(date.replace('Z', '+00:00')), with the fallback to
\* datetime.now() on ValueError; "raise" when date is None (AttributeError)
Now == "now"
ParseDate(date) ==
  CASE date = NoValue -> "raise"
    [] date = ValidDate -> "2024-01-01T10:00:00+00:00"
    [] OTHER -> Now

\* mutation: the metric values are appended in reverse catalog order
BuildRow_swap(project_info, analysis_date, branch, quality_gate, measures) ==
  <<project_info.repo_name, project_info.project_key, analysis_date,
    branch, quality_gate>>
    \o [k \in 1..Len(metrics) |->
          DictGet(measures, metrics[Len(metrics) + 1 - k])]

\* the row process_project builds: five fixed fields, then one value per
\* catalog metric in catalog order
BuildRow(project_info, analysis_date, branch, quality_gate, measures) ==
  <<project_info.repo_name, project_info.project_key, analysis_date,
    branch, quality_gate>>
    \o [k \in 1..Len(metrics) |-> DictGet(measures, metrics[k])]

\* process_project: the requests it sends, whether it raises, what it
\* returns, the state the project ends in, and the message it prints when it
\* returns no record
process_project(p, project_info, ex, an, ms, qg) ==
  LET info == get_latest_analysis(an)
      measures == get_project_measures(ms)
      quality_gate == get_quality_gate_status(qg)
      analysis_date == ParseDate(info.date)
      c1 == <<<<"exists", p>>>>
      c2 == c1 \o <<<<"analysis", p>>>>
      c3 == c2 \o <<<<"measures", p>>>>
      c4 == c3 \o <<<<"quality_gate", p>>>>
  IN CASE ~verify_project_exists(ex) ->
            [raised |-> FALSE, data |-> <<>>, calls |-> c1,
             outcome |-> "not_exists", log |-> <<"does not exist">>]
       [] an.kind = "raise" ->
            [raised |-> TRUE, data |-> <<>>, calls |-> c2,
             outcome |-> "raised", log |-> <<>>]
       [] info.kind = "none" ->
            [raised |-> FALSE, data |-> <<>>, calls |-> c2,
             outcome |-> "no_analysis", log |-> <<"No analysis found">>]
       [] ms.kind = "raise" ->
            [raised |-> TRUE, data |-> <<>>, calls |-> c3,
             outcome |-> "raised", log |-> <<>>]
       [] qg.kind = "raise" \/ analysis_date = "raise" ->
            [raised |-> TRUE, data |-> <<>>, calls |-> c4,
             outcome |-> "raised", log |-> <<>>]
       [] OTHER ->
            [raised |-> FALSE,
             data |-> <<BuildRow(project_info, analysis_date, info.branch,
                                 quality_gate, measures)>>,
             calls |-> c4, outcome |-> "ready", log |-> <<>>]


\* ------------------------------------------------------- the database
\* columns of sonarqube_results as setup_database creates it
FixedColumns ==
  <<"repo_name", "project_key", "analysis_date", "branch",
    "quality_gate_status">>
TableColumns == <<"id">> \o FixedColumns \o metrics \o <<"created_at">>

\* an absent table
NoTable ==
  [exists |-> FALSE, columns |-> <<>>, not_null |-> {}, unique |-> {},
   indexes |-> {}, rows |-> <<>>]

\* mutation: the table is dropped and created again
CreateTable_recreate(d) ==
  [exists |-> TRUE, columns |-> TableColumns,
   not_null |-> {"id", "repo_name", "project_key", "analysis_date"},
   unique |-> {<<"id">>}, indexes |-> {}, rows |-> <<>>]

\* CREATE TABLE IF NOT EXISTS sonarqube_results (...)
CreateTableIfNotExists(d) ==
  IF d.exists THEN d
  ELSE [exists |-> TRUE, columns |-> TableColumns,
        not_null |-> {"id", "repo_name", "project_key", "analysis_date"},
        unique |-> {<<"id">>}, indexes |-> {}, rows |-> <<>>]

\* CREATE INDEX IF NOT EXISTS idx_sonarqube_results_repo_date
CreateIndexIfNotExists(d) ==
  [d EXCEPT !.indexes = @ \cup {<<"repo_name", "analysis_date">>}]

\* the two statements of setup_database, in order
SetupStatements(d) == CreateIndexIfNotExists(CreateTableIfNotExists(d))

\* a row stored before the run started
LegacyRow ==
  <<"org/old", "org_old", "2023-06-01T00:00:00+00:00", "main", "OK">>
    \o [k \in 1..Len(metrics) |-> "1"]

\* the stores a run can start from
InitialStores ==
  {NoTable, SetupStatements(NoTable),
   [SetupStatements(NoTable) EXCEPT !.rows = <<LegacyRow>>]}

\* can the INSERT of insert_sonar_data store this row in table d
RowAccepted(d, row) ==
  /\ d.exists
  /\ \A c \in {"repo_name", "project_key", "analysis_date"} \cup MetricSet :
       \E k \in 1..Len(d.columns) : d.columns[k] = c
  /\ Len(row) = 5 + Len(metrics)
  /\ \A k \in 1..3 : row[k] # NoValue

\* ------------------------------------------------------------ the state
VARIABLES
  config,       \* which required settings are present
  nproj,        \* Len(SONAR_PROJECTS)
  pc,           \* position of main() (or of the script that runs)
  access,       \* response verify_sonar_access got, "none" before the call
  verifyCount,  \* calls of verify_sonar_access
  conn,         \* db_connection: "none", "open", "closed"
  connects,     \* calls of psycopg2.connect
  db,           \* committed content of the database
  db0,          \* the database as it was when the run started
  pending,      \* rows written by the open transaction, not committed
  stmts,        \* SQL statements executed
  commits,      \* commits
  setupResult,  \* of the last setup_database: "none", "committed",
                \* "rolled_back"
  idx,          \* index of the next project of the loop
  all_data,     \* all_data of main()
  trace,        \* per project: the responses it got and how it ended
  calls,        \* the per-project requests sent, in order
  handed,       \* the batches handed to insert_sonar_data
  schemaCalls,  \* calls of setup_database
  dbFirst,      \* the database after the first committed setup_database
  writes,       \* the upserts sonar_to_db.py executed
  runs,         \* no: the number of the run of main(), of: the runs planned
  history,      \* Calculator.history
  calc,         \* the calls made on the Calculator: how many, the operations
                \* that returned since the last clear_history, the last call
  processed_count,  \* DataProcessor.processed_count
  errors,       \* DataProcessor.errors
  proc,         \* the calls made on the DataProcessor: how many, the records
                \* processed since the last reset, the last call
  math,         \* a call of gcd or lcm: arguments, loop variables, result
  sieve         \* a call of is_prime or find_primes_up_to: argument, loop
                \* variable, the primes list, the value returned

vars ==
  <<config, nproj, pc, access, verifyCount, conn, connects, db, db0, pending,
    stmts, commits, setupResult, idx, all_data, trace, calls, handed,
    schemaCalls, dbFirst, writes, runs>>

\* the state of calculator.py and data_utils.py
libvars == <<history, calc, processed_count, errors, proc, math, sieve>>

\* the state of both parts
allvars == <<vars, libvars>>

\* a project the loop has not reached
Pending ==
  [outcome |-> "pending", ex |-> "none", fault |-> "none",
   dict |-> EmptyDict, date |-> "n/a", qg |-> "n/a", an |-> "n/a",
   reasons |-> <<>>]

\* a Calculator and a DataProcessor as constructed, no gcd or lcm call
NoCall ==
  [op |-> "none", args |-> <<>>, error |-> "none", before |-> <<>>]
NoMath == [fn |-> "none", a |-> 0, b |-> 0, x |-> 0, y |-> 0, pc |-> "idle",
           result |-> 0]
NoData ==
  [calls |-> 0, seen |-> 0, op |-> "none", input |-> <<>>,
   before |-> [processed_count |-> 0, errors |-> <<>>], ret |-> <<>>,
   raised |-> "none"]
NoSieve ==
  [fn |-> "none", arg |-> 0, num |-> 0, primes |-> <<>>, pc |-> "idle",
   ret |-> <<>>]
InitLib ==
  /\ history = <<>>
  /\ calc = [calls |-> 0, returned |-> <<>>, last |-> NoCall]
  /\ processed_count = 0
  /\ errors = <<>>
  /\ proc = NoData
  /\ math = NoMath
  /\ sieve = NoSieve

\* what every run starts with, whatever the script
InitCommon ==
  /\ access = "none"
  /\ verifyCount = 0
  /\ conn = "none"
  /\ connects = 0
  /\ db0 = db
  /\ pending = <<>>
  /\ stmts = 0
  /\ commits = 0
  /\ setupResult = "none"
  /\ idx = 1
  /\ all_data = <<>>
  /\ trace = [i \in 1..nproj |-> Pending]
  /\ calls = <<>>
  /\ handed = <<>>
  /\ schemaCalls = 0
  /\ dbFirst = NoTable
  /\ writes = <<>>
  /\ InitLib

\* a run of sonar_results.py: SONAR_TOKEN may be unset, the settings with a
\* default are present
Init ==
  /\ config \in [SONAR_TOKEN : BOOLEAN, SONAR_ORGANIZATION : {TRUE},
                 DB : {TRUE}]
  /\ nproj \in 0..MaxProjects
  /\ pc = "config"
  /\ db \in InitialStores
  /\ InitCommon
  /\ runs = [no |-> 1, of |-> 1]

\* main(): missing_vars is empty
ConfigComplete(c) == c.SONAR_TOKEN /\ c.DB

\* main(): the required_vars check
CheckConfig ==
  /\ pc = "config"
  /\ pc' = IF ConfigComplete(config) THEN "verify" ELSE "done"
  /\ UNCHANGED <<config, nproj, access, verifyCount, conn, connects, db, db0,
                 pending, stmts, commits, setupResult, idx, all_data, trace,
                 calls, handed, schemaCalls, dbFirst, writes,
                 runs, libvars>>

\* outcomes of the two requests of verify_sonar_access
AccessResponses ==
  {"ok", "validate_401", "validate_bad_json", "token_not_valid", "org_400",
   "org_non_200", "org_bad_json", "org_not_found", "request_error"}

\* mutation: an empty organization list is not treated as a failure
verify_sonar_access_noorg(ac) == ac \in {"ok", "org_not_found"}

verify_sonar_access(ac) == ac = "ok"

\* main(): if not verify_sonar_access(): return
VerifyAccess ==
  /\ pc = "verify"
  /\ \E ac \in AccessResponses :
       /\ access' = ac
       /\ pc' = IF verify_sonar_access(ac) THEN "connect" ELSE "done"
  /\ verifyCount' = verifyCount + 1
  /\ UNCHANGED <<config, nproj, conn, connects, db, db0, pending, stmts,
                 commits, setupResult, idx, all_data, trace, calls, handed,
                 schemaCalls, dbFirst, writes,
                 runs, libvars>>

\* main(): db_connection = get_db_connection(), None when connect fails
Connect ==
  /\ pc = "connect"
  /\ connects' = connects + 1
  /\ \E ok \in BOOLEAN :
       IF ok THEN conn' = "open" /\ pc' = "setup"
       ELSE conn' = "none" /\ pc' = "done"
  /\ UNCHANGED <<config, nproj, access, verifyCount, db, db0, pending, stmts,
                 commits, setupResult, idx, all_data, trace, calls, handed,
                 schemaCalls, dbFirst, writes,
                 runs, libvars>>

\* setup_database(conn): ran = the statements that succeeded before
\* psycopg2.Error was raised (2 = both, then the commit succeeds or not);
\* on an error the transaction is rolled back
setup_database(d, ran, commit_ok) ==
  IF ran = 2 /\ commit_ok
  THEN [db |-> SetupStatements(d), stmts |-> 2, commits |-> 1,
        result |-> "committed"]
  ELSE [db |-> d, stmts |-> IF ran = 2 THEN 2 ELSE ran + 1, commits |-> 0,
        result |-> "rolled_back"]

\* main(): setup_database(db_connection); all_data = []
SetupDatabase ==
  /\ pc = "setup"
  /\ \E ran \in 0..2, commit_ok \in BOOLEAN :
       LET r == setup_database(db, ran, commit_ok)
       IN /\ db' = r.db
          /\ stmts' = stmts + r.stmts
          /\ commits' = commits + r.commits
          /\ setupResult' = r.result
          /\ dbFirst' = IF r.result = "committed" THEN r.db ELSE dbFirst
  /\ schemaCalls' = schemaCalls + 1
  /\ pc' = "loop"
  /\ all_data' = <<>>
  /\ idx' = 1
  /\ UNCHANGED <<config, nproj, access, verifyCount, conn, connects, db0,
                 pending, trace, calls, handed, writes,
                 runs, libvars>>

\* the request of a project that suffered a remote failure (timeout, network
\* error, non-2xx status); "other" for a response the code cannot read
FaultOf(ex, an, ms, qg, r) ==
  CASE ex \in {"non_200", "exception"} -> "exists"
    [] r.outcome = "not_exists" -> "none"
    [] an.kind = "request_error" -> "analysis"
    [] an.kind = "raise" -> "other"
    [] r.outcome = "no_analysis" -> "none"
    [] ms.kind \in {"401", "404", "request_error"} -> "measures"
    [] ms.kind \in {"value_error", "raise"} -> "other"
    [] qg.kind = "request_error" -> "quality_gate"
    [] qg.kind = "raise" -> "other"
    [] OTHER -> "none"

\* mutation: no try/except, an exception of process_project leaves main()
main_loop_body_nocatch(data, r) ==
  [all_data |-> IF r.raised THEN data ELSE data \o r.data,
   pc |-> IF r.raised THEN "crashed" ELSE "loop", log |-> <<>>]

\* mutation: the rows of a project are added to all_data twice
main_loop_body_twice(data, r) ==
  [all_data |-> IF r.raised THEN data ELSE data \o r.data \o r.data,
   pc |-> "loop",
   log |-> IF r.raised THEN <<"Error processing project">> ELSE <<>>]

\* mutation: the rows of a project are put in front of all_data
main_loop_body_front(data, r) ==
  [all_data |-> IF r.raised THEN data ELSE r.data \o data, pc |-> "loop",
   log |-> IF r.raised THEN <<"Error processing project">> ELSE <<>>]

\* mutation: the except clause prints nothing
main_loop_body_silent(data, r) ==
  [all_data |-> IF r.raised THEN data ELSE data \o r.data, pc |-> "loop",
   log |-> <<>>]

\* main(): the try/except around process_project: an exception is printed
\* with the project key and the loop continues with all_data as it was
main_loop_body(data, r) ==
  [all_data |-> IF r.raised THEN data ELSE data \o r.data, pc |-> "loop",
   log |-> IF r.raised THEN <<"Error processing project">> ELSE <<>>]

\* the response sets a project draws from: every response in the only run
\* over a single project, the smaller sets otherwise
Detail == IF runs.of = 1 THEN nproj ELSE 0

\* main(): one iteration of the loop over SONAR_PROJECTS
ProcessProject ==
  /\ pc = "loop"
  /\ idx <= nproj
  /\ \E ex \in ExistsResponses, an \in AnalysisResponses(Detail),
        ms \in MeasuresResponses(Detail),
        qg \in QualityGateResponses(Detail) :
       LET project == SONAR_PROJECTS(nproj)[idx]
           r == process_project(idx, project, ex, an, ms, qg)
           b == main_loop_body(all_data, r)
           printed == r.log \o b.log
       IN /\ all_data' = b.all_data
          /\ pc' = b.pc
          /\ calls' = calls \o r.calls
          /\ trace' = [trace EXCEPT ![idx] =
                         [outcome |-> r.outcome, ex |-> ex,
                          fault |-> FaultOf(ex, an, ms, qg, r),
                          dict |-> IF Len(r.calls) >= 3 THEN ms.dict
                                   ELSE EmptyDict,
                          date |-> IF Len(r.calls) >= 4 THEN an.date
                                   ELSE "n/a",
                          qg |-> IF Len(r.calls) >= 4 THEN qg.kind
                                 ELSE "n/a",
                          an |-> IF Len(r.calls) >= 2 THEN an.kind
                                 ELSE "n/a",
                          reasons |-> [k \in 1..Len(printed) |->
                                         <<printed[k], project.project_key>>]]]
  /\ idx' = idx + 1
  /\ UNCHANGED <<config, nproj, access, verifyCount, conn, connects, db, db0,
                 pending, stmts, commits, setupResult, handed, schemaCalls,
                 dbFirst, writes,
                 runs, libvars>>

\* mutation: the loop leaves out the last project
LoopExhausted_early(i, n) == i >= n

\* main(): "for project in SONAR_PROJECTS" has no project left
LoopExhausted(i, n) == i > n

\* main(): the loop is over
EndLoop ==
  /\ pc = "loop"
  /\ LoopExhausted(idx, nproj)
  /\ pc' = "persist"
  /\ UNCHANGED <<config, nproj, access, verifyCount, conn, connects, db, db0,
                 pending, stmts, commits, setupResult, idx, all_data, trace,
                 calls, handed, schemaCalls, dbFirst, writes,
                 runs, libvars>>

\* mutation: every row is committed as soon as it is written
insert_sonar_data_autocommit(d, data, fail_at, commit_ok) ==
  LET bad == {k \in 1..Len(data) : ~RowAccepted(d, data[k]) \/ k = fail_at}
      first_bad == IF bad = {} THEN Len(data) + 1
                   ELSE CHOOSE k \in bad : \A j \in bad : k <= j
      written == SubSeq(data, 1, first_bad - 1)
  IN IF bad = {} /\ commit_ok
     THEN [raised |-> FALSE, db |-> [d EXCEPT !.rows = @ \o data],
           pending |-> <<>>, commits |-> 1]
     ELSE [raised |-> TRUE, db |-> [d EXCEPT !.rows = @ \o written],
           pending |-> <<>>, commits |-> Len(written)]

\* insert_sonar_data(conn, data): executemany stores the rows one by one and
\* raises at the first row the server refuses (fail_at, or a row the table
\* cannot take) or when the commit fails; nothing is committed before the
\* final conn.commit()
insert_sonar_data(d, data, fail_at, commit_ok) ==
  LET bad == {k \in 1..Len(data) : ~RowAccepted(d, data[k]) \/ k = fail_at}
      first_bad == IF bad = {} THEN Len(data) + 1
                   ELSE CHOOSE k \in bad : \A j \in bad : k <= j
      written == SubSeq(data, 1, first_bad - 1)
  IN IF bad = {} /\ commit_ok
     THEN [raised |-> FALSE, db |-> [d EXCEPT !.rows = @ \o data],
           pending |-> <<>>, commits |-> 1]
     ELSE [raised |-> TRUE, db |-> d, pending |-> written, commits |-> 0]

\* mutation: insert_sonar_data is called whatever all_data holds
HasData_always(data) == TRUE

\* main(): if all_data
HasData(data) == data # <<>>

\* main(): if all_data: insert_sonar_data(...); db_connection.close().
\* An exception of insert_sonar_data leaves main() at once: the connection is
\* not closed and the open transaction is never committed.
Persist ==
  /\ pc = "persist"
  /\ IF HasData(all_data)
     THEN \E fail_at \in 0..Len(all_data), commit_ok \in BOOLEAN :
            LET r == insert_sonar_data(db, all_data, fail_at, commit_ok)
            IN /\ db' = r.db
               /\ pending' = r.pending
               /\ commits' = commits + r.commits
               /\ stmts' = stmts + 1
               /\ handed' = Append(handed, all_data)
               /\ pc' = IF r.raised THEN "crashed" ELSE "done"
               /\ conn' = IF r.raised THEN conn ELSE "closed"
     ELSE /\ pc' = "done"
          /\ conn' = "closed"
          /\ UNCHANGED <<db, pending, commits, stmts, handed>>
  /\ UNCHANGED <<config, nproj, access, verifyCount, connects, db0,
                 setupResult, idx, all_data, trace, calls, schemaCalls,
                 dbFirst, writes,
                 runs, libvars>>

Next ==
  \/ CheckConfig
  \/ VerifyAccess
  \/ Connect
  \/ SetupDatabase
  \/ ProcessProject
  \/ EndLoop
  \/ Persist

Spec == Init /\ [][Next]_allvars


\* ------------------------------------- every combination of settings
\* a run of sonar_results.py over at most one project in which each of
\* SONAR_TOKEN, SONAR_ORGANIZATION and the database settings may be unset
\* (the database settings have defaults: unset means set to an empty string)
InitConfig ==
  /\ config \in [SONAR_TOKEN : BOOLEAN, SONAR_ORGANIZATION : BOOLEAN,
                 DB : BOOLEAN]
  /\ nproj \in 0..1
  /\ pc = "config"
  /\ db \in InitialStores
  /\ InitCommon
  /\ runs = [no |-> 1, of |-> 1]

SpecConfig == InitConfig /\ [][Next]_allvars

\* ------------------------------------------- sonar_results.py, run again
\* runs of sonar_results.py explored on one store
MaxPipelineRuns == 2

InitRuns ==
  /\ config = [SONAR_TOKEN |-> TRUE, SONAR_ORGANIZATION |-> TRUE, DB |-> TRUE]
  /\ nproj = 1
  /\ pc = "config"
  /\ db \in InitialStores
  /\ InitCommon
  /\ runs = [no |-> 1, of |-> MaxPipelineRuns]

\* sonar_results.py is started again on the store the last run left
NewRun ==
  /\ pc \in {"done", "crashed"}
  /\ runs.no < runs.of
  /\ runs' = [runs EXCEPT !.no = @ + 1]
  /\ pc' = "config"
  /\ access' = "none"
  /\ verifyCount' = 0
  /\ conn' = "none"
  /\ connects' = 0
  /\ db0' = db
  /\ pending' = <<>>
  /\ stmts' = 0
  /\ commits' = 0
  /\ setupResult' = "none"
  /\ idx' = 1
  /\ all_data' = <<>>
  /\ trace' = [i \in 1..nproj |-> Pending]
  /\ calls' = <<>>
  /\ handed' = <<>>
  /\ UNCHANGED <<config, nproj, db, schemaCalls, dbFirst, writes, libvars>>

NextRuns ==
  \/ CheckConfig
  \/ VerifyAccess
  \/ Connect
  \/ SetupDatabase
  \/ ProcessProject
  \/ EndLoop
  \/ Persist
  \/ NewRun

SpecRuns == InitRuns /\ [][NextRuns]_allvars

\* ------------------------------------------ setup_database, run after run
\* calls of setup_database explored on one store
MaxSchemaCalls == 3

\* a table created from an earlier, shorter catalog, holding a row
OldCatalogTable ==
  [exists |-> TRUE,
   columns |-> <<"id">> \o FixedColumns \o <<"coverage", "created_at">>,
   not_null |-> {"id", "repo_name", "project_key", "analysis_date"},
   unique |-> {<<"id">>}, indexes |-> {},
   rows |-> <<<<"org/old", "org_old", "2023-06-01T00:00:00+00:00", "main",
                "OK", "1">>>>]

\* the stores setup_database can find
SchemaStores ==
  InitialStores
    \cup {[SetupStatements(NoTable) EXCEPT !.rows = <<LegacyRow, LegacyRow>>],
          OldCatalogTable}

InitSchema ==
  /\ config = [SONAR_TOKEN |-> TRUE, SONAR_ORGANIZATION |-> TRUE, DB |-> TRUE]
  /\ nproj = 0
  /\ pc = "schema"
  /\ db \in SchemaStores
  /\ InitCommon
  /\ runs = [no |-> 1, of |-> 1]

\* setup_database(conn) called once more on the same store
SchemaCall ==
  /\ pc = "schema"
  /\ schemaCalls < MaxSchemaCalls
  /\ \E ran \in 0..2, commit_ok \in BOOLEAN :
       LET r == setup_database(db, ran, commit_ok)
       IN /\ db' = r.db
          /\ stmts' = stmts + r.stmts
          /\ commits' = commits + r.commits
          /\ setupResult' = r.result
          /\ dbFirst' = IF r.result = "committed" /\ ~dbFirst.exists
                        THEN r.db ELSE dbFirst
  /\ schemaCalls' = schemaCalls + 1
  /\ UNCHANGED <<config, nproj, pc, access, verifyCount, conn, connects, db0,
                 pending, idx, all_data, trace, calls, handed, writes,
                 runs, libvars>>

NextSchema == SchemaCall

SpecSchema == InitSchema /\ [][NextSchema]_allvars

\* ------------------------------------------------------- sonar_to_db.py
\* runs of sonar_to_db.py explored on one store
MaxRuns == 2

\* SONAR_PROJECT_KEY
SONAR_PROJECT_KEY == KeyNames[1]

\* the table the INSERT ... ON CONFLICT (project_key, analysis_date) of
\* sonar_to_db.py needs: a unique constraint on its conflict target and no
\* NOT NULL column other than the two it fills
KeyedTable ==
  [exists |-> TRUE, columns |-> TableColumns,
   not_null |-> {"id", "project_key", "analysis_date"},
   unique |-> {<<"id">>, <<"project_key", "analysis_date">>},
   indexes |-> {}, rows |-> <<>>]

\* values the measures endpoint reports to sonar_to_db.py
ScriptValues == {"0", "3", "87.5"}

\* float(metrics.get("coverage", 0)), as the text the column stores
FloatOf(v) ==
  CASE v = "0" -> "0.0"
    [] v = "3" -> "3.0"
    [] v = "87.5" -> "87.5"
    [] OTHER -> "raise"

\* int(metrics.get("bugs", 0)), as the text the column stores
IntOf(v) ==
  CASE v = "0" -> "0"
    [] v = "3" -> "3"
    [] OTHER -> "raise"

\* dict.get(key, 0) of the metrics dict; the default 0 converts like "0"
GetOrZero(d, key) == IF key \in DOMAIN d THEN d[key] ELSE "0"

\* the timestamp the server stores for a date string
OtherDate == "2024-02-01T10:00:00Z"
PgTimestamp(date) ==
  CASE date = ValidDate -> "2024-01-01T10:00:00+00:00"
    [] date = OtherDate -> "2024-02-01T10:00:00+00:00"
    [] OTHER -> Now

\* get_latest_analysis_date(): the date of the first analysis, now() when
\* there is none, "raise" when raise_for_status() raises
get_latest_analysis_date(an) ==
  CASE an.kind = "analyses" -> an.date
    [] an.kind = "no_analyses" -> Now
    [] OTHER -> "raise"

\* positions of the rows with this key in table d
Conflicts(d, key, date) ==
  {k \in 1..Len(d.rows) : d.rows[k][2] = key /\ d.rows[k][3] = date}

\* INSERT INTO sonarqube_results (project_key, analysis_date, coverage, bugs)
\* ... ON CONFLICT (project_key, analysis_date) DO UPDATE SET coverage, bugs:
\* the statement is refused without a unique constraint on the conflict
\* target, and the proposed row is refused when a column it leaves NULL is
\* NOT NULL
upsert(d, key, date, coverage, bugs) ==
  LET hit == Conflicts(d, key, date)
      row == <<NoValue, key, date, "main", NoValue, coverage, bugs>>
  IN CASE ~d.exists -> [raised |-> TRUE, db |-> d]
       [] <<"project_key", "analysis_date">> \notin d.unique ->
            [raised |-> TRUE, db |-> d]
       [] "repo_name" \in d.not_null -> [raised |-> TRUE, db |-> d]
       [] hit # {} ->
            [raised |-> FALSE,
             db |-> [d EXCEPT !.rows =
                       [k \in 1..Len(@) |->
                          IF k \in hit
                          THEN [@[k] EXCEPT ![6] = coverage, ![7] = bugs]
                          ELSE @[k]]]]
       [] OTHER -> [raised |-> FALSE, db |-> [d EXCEPT !.rows = Append(@, row)]]

\* responses sonar_to_db.py can get
ScriptAnalysisResponses ==
  [kind : {"analyses"}, date : {ValidDate, OtherDate}]
    \cup [kind : {"no_analyses", "http_error"}, date : {NoValue}]
ScriptMeasuresResponses ==
  [kind : {"ok"}, dict : UNION {[S -> ScriptValues] : S \in SUBSET MetricSet}]
    \cup [kind : {"http_error", "key_error"}, dict : {EmptyDict}]

InitUpsert ==
  /\ config = [SONAR_TOKEN |-> TRUE, SONAR_ORGANIZATION |-> TRUE, DB |-> TRUE]
  /\ nproj = 0
  /\ pc = "script"
  /\ db \in {NoTable, SetupStatements(NoTable), KeyedTable}
  /\ InitCommon
  /\ runs = [no |-> 1, of |-> 1]

\* one run of sonar_to_db.py, top to bottom; an exception ends the run where
\* it is raised
RunSonarToDb ==
  /\ pc = "script"
  /\ connects < MaxRuns
  /\ \E an \in ScriptAnalysisResponses, ms \in ScriptMeasuresResponses,
        connect_ok \in BOOLEAN, commit_ok \in BOOLEAN :
       LET analysis_date == get_latest_analysis_date(an)
           coverage == FloatOf(GetOrZero(ms.dict, "coverage"))
           bugs == IntOf(GetOrZero(ms.dict, "bugs"))
           date == PgTimestamp(analysis_date)
           r == upsert(db, SONAR_PROJECT_KEY, date, coverage, bugs)
       IN /\ analysis_date # "raise"
          /\ ms.kind = "ok"
          /\ coverage # "raise"
          /\ bugs # "raise"
          /\ connects' = connects + 1
          /\ IF ~connect_ok
             THEN UNCHANGED <<db, stmts, commits, writes, conn>>
             ELSE /\ stmts' = stmts + 1
                  /\ db' = IF ~r.raised /\ commit_ok THEN r.db ELSE db
                  /\ commits' = commits + (IF ~r.raised /\ commit_ok
                                           THEN 1 ELSE 0)
                  /\ conn' = IF ~r.raised /\ commit_ok THEN "closed"
                             ELSE "open"
                  /\ writes' = Append(writes,
                       [date |-> date, coverage |-> coverage, bugs |-> bugs,
                        reported |-> DOMAIN ms.dict, commit_ok |-> commit_ok,
                        committed |-> ~r.raised /\ commit_ok])
  /\ UNCHANGED <<config, nproj, pc, access, verifyCount, db0, pending,
                 setupResult, idx, all_data, trace, calls, handed,
                 schemaCalls, dbFirst,
                 runs, libvars>>

NextUpsert == RunSonarToDb

SpecUpsert == InitUpsert /\ [][NextUpsert]_allvars

\* ------------------------------------------------------------ calculator.py

MaxCalcCalls == 3

\* the numbers handed to the Calculator; square_root also takes a square
CalcNumbers == {-1, 0}
SqrtNumbers == CalcNumbers \cup {4}

Abs(n) == IF n < 0 THEN -n ELSE n

\* d divides n (n >= 0, d >= 1)
Divides(d, n) == \E k \in 0..n : n = d * k

\* the greatest common divisor of two naturals, from its definition
GreatestCommonDivisor(m, n) ==
  IF m = 0 /\ n = 0 THEN 0
  ELSE CHOOSE d \in 1..(m + n) :
         /\ Divides(d, m) /\ Divides(d, n)
         /\ \A e \in 1..(m + n) : Divides(e, m) /\ Divides(e, n) => e <= d

\* the least common multiple of two positive naturals, from its definition
LeastCommonMultiple(m, n) ==
  CHOOSE l \in 1..(m * n) :
    /\ Divides(m, l) /\ Divides(n, l)
    /\ \A k \in 1..(m * n) : Divides(m, k) /\ Divides(n, k) => l <= k

\* a Python number: the fraction n/d in lowest terms, d > 0
Number(n, d) ==
  LET s == IF d < 0 THEN -1 ELSE 1
      g == GreatestCommonDivisor(Abs(n), Abs(d))
  IN [n |-> (s * n) \div g, d |-> (s * d) \div g]

RECURSIVE IntPower(_, _)
IntPower(base, e) == IF e = 0 THEN 1 ELSE base * IntPower(base, e - 1)

\* math.sqrt of a perfect square
Sqrt(n) == CHOOSE r \in 0..n : r * r = n

\* what a method hands back: the history, the exception raised, the result
Returned(h, result) == [history |-> h, error |-> "none", result |-> <<result>>]
Raised(h, e) == [history |-> h, error |-> e, result |-> <<>>]

\* the f-string appended to the history: operation, arguments, result
Entry(op, args, result) == [op |-> op, args |-> args, result |-> result]

add(h, a, b) ==
  LET result == Number(a + b, 1)
  IN Returned(Append(h, Entry("add", <<a, b>>, result)), result)

subtract(h, a, b) ==
  LET result == Number(a - b, 1)
  IN Returned(Append(h, Entry("subtract", <<a, b>>, result)), result)

multiply(h, a, b) ==
  LET result == Number(a * b, 1)
  IN Returned(Append(h, Entry("multiply", <<a, b>>, result)), result)

divide_log_first(h, a, b) ==
  LET result == Number(a, IF b = 0 THEN 1 ELSE b)
      logged == Append(h, Entry("divide", <<a, b>>, result))
  IN IF b = 0 THEN Raised(logged, "ValueError") ELSE Returned(logged, result)
divide(h, a, b) ==
  IF b = 0 THEN Raised(h, "ValueError")
  ELSE LET result == Number(a, b)
       IN Returned(Append(h, Entry("divide", <<a, b>>, result)), result)

\* base ** exponent: 0 to a negative power raises ZeroDivisionError
power(h, base, exponent) ==
  IF exponent < 0 /\ base = 0 THEN Raised(h, "ZeroDivisionError")
  ELSE LET result == IF exponent >= 0
                     THEN Number(IntPower(base, exponent), 1)
                     ELSE Number(1, IntPower(base, -exponent))
       IN Returned(Append(h, Entry("power", <<base, exponent>>, result)),
                   result)

square_root(h, number) ==
  IF number < 0 THEN Raised(h, "ValueError")
  ELSE LET result == Number(Sqrt(number), 1)
       IN Returned(Append(h, Entry("square_root", <<number>>, result)),
                   result)

get_history(h) == h

clear_history_keep(h) == h
clear_history(h) == <<>>

\* the method op called with args on a Calculator whose history is h
CalcCall(h, op, args) ==
  CASE op = "add" -> add(h, args[1], args[2])
    [] op = "subtract" -> subtract(h, args[1], args[2])
    [] op = "multiply" -> multiply(h, args[1], args[2])
    [] op = "divide" -> divide(h, args[1], args[2])
    [] op = "power" -> power(h, args[1], args[2])
    [] op = "square_root" -> square_root(h, args[1])

BinaryOps == {"add", "subtract", "multiply", "divide", "power"}

\* one call of an arithmetic method
Operate ==
  /\ calc.calls < MaxCalcCalls
  /\ \E op \in BinaryOps \cup {"square_root"} :
       \E args \in IF op = "square_root"
                   THEN {<<n>> : n \in SqrtNumbers}
                   ELSE CalcNumbers \X CalcNumbers :
         LET r == CalcCall(history, op, args)
         IN /\ history' = r.history
            /\ calc' = [calls |-> calc.calls + 1,
                        returned |-> IF r.error = "none"
                                     THEN Append(calc.returned,
                                                 [op |-> op, args |-> args])
                                     ELSE calc.returned,
                        last |-> [op |-> op, args |-> args,
                                  error |-> r.error, before |-> history]]
  /\ UNCHANGED <<vars, processed_count, errors, proc, math, sieve>>

\* one call of clear_history
ClearHistory ==
  /\ calc.calls < MaxCalcCalls
  /\ history' = clear_history(history)
  /\ calc' = [calls |-> calc.calls + 1, returned |-> <<>>,
              last |-> [op |-> "clear_history", args |-> <<>>,
                        error |-> "none", before |-> history]]
  /\ UNCHANGED <<vars, processed_count, errors, proc, math, sieve>>

\* the pipeline before main() is called: the library is used on its own
InitLibrary ==
  /\ config = [SONAR_TOKEN |-> TRUE, SONAR_ORGANIZATION |-> TRUE, DB |-> TRUE]
  /\ nproj = 0
  /\ pc = "config"
  /\ db = NoTable
  /\ InitCommon
  /\ runs = [no |-> 1, of |-> 1]

NextCalc == Operate \/ ClearHistory

SpecCalc == InitLibrary /\ [][NextCalc]_allvars

\* ------------------------------------------------------------ data_utils.py

MaxDataCalls == 2
MaxBatch == 2

\* strings are sequences of characters
LowerCase == {"a", "b", "c", "o"}
UpperCase == {"A", "B"}
Letters == LowerCase \cup UpperCase
Digits == {"1"}
Whitespace == {" "}

\* str.lower()
LowerChar(c) == CASE c = "A" -> "a" [] c = "B" -> "b" [] OTHER -> c
lower(s) == [k \in 1..Len(s) |-> LowerChar(s[k])]

\* str.strip()
RECURSIVE lstrip(_)
lstrip(s) ==
  IF s # <<>> /\ Head(s) \in Whitespace THEN lstrip(Tail(s)) ELSE s
RECURSIVE rstrip(_)
rstrip(s) ==
  IF s # <<>> /\ s[Len(s)] \in Whitespace
  THEN rstrip(SubSeq(s, 1, Len(s) - 1)) ELSE s
strip(s) == rstrip(lstrip(s))

\* re.match of ^[a-zA-Z0-9._%+-]+@[a-zA-Z0-9.-]+\.[a-zA-Z]{2,}$
LocalChars == Letters \cup Digits \cup {".", "_", "%", "+", "-"}
DomainChars == Letters \cup Digits \cup {".", "-"}
validate_email(email) ==
  \E at \in 1..Len(email), dot \in 1..Len(email) :
    /\ email[at] = "@"
    /\ at > 1
    /\ \A k \in 1..(at - 1) : email[k] \in LocalChars
    /\ dot > at + 1
    /\ email[dot] = "."
    /\ \A k \in (at + 1)..(dot - 1) : email[k] \in DomainChars
    /\ Len(email) - dot >= 2
    /\ \A k \in (dot + 1)..Len(email) : email[k] \in Letters

\* int(v) for the values an id takes, written as Python writes them
\*   1: an int; '2' and 'abc': strings; None; inf: float('inf')
int(v) ==
  CASE v = "1" -> [raised |-> "none", value |-> 1]
    [] v = "'2'" -> [raised |-> "none", value |-> 2]
    [] v = "'abc'" -> [raised |-> "ValueError", value |-> 0]
    [] v = "None" -> [raised |-> "TypeError", value |-> 0]
    [] v = "inf" -> [raised |-> "OverflowError", value |-> 0]

\* the user records handed to the DataProcessor: dictionaries, a field that
\* is not in the dictionary is not in the DOMAIN
AnnName == <<" ", "A", " ">>
AnnEmail == <<" ", "A", "@", "b", ".", "c", "o">>
ShortTld == <<"a", "@", "b", ".", "c">>
Ann == [id |-> "1", name |-> AnnName, email |-> AnnEmail]
UserRecords ==
  {Ann,
   [Ann EXCEPT !.id = "'2'"],
   [name |-> AnnName, email |-> AnnEmail],
   [id |-> "1", name |-> AnnName],
   [Ann EXCEPT !.email = ShortTld],
   [Ann EXCEPT !.id = "'abc'"],
   [Ann EXCEPT !.id = "None"],
   [Ann EXCEPT !.id = "inf"]}

\* the first of the required fields that user_data lacks, "" when none
RECURSIVE FirstMissing(_, _)
FirstMissing(user_data, required_fields) ==
  IF required_fields = <<>> THEN ""
  ELSE IF Head(required_fields) \notin DOMAIN user_data
       THEN Head(required_fields)
       ELSE FirstMissing(user_data, Tail(required_fields))

\* the exceptions process_user_data catches
Caught == {"ValueError", "TypeError"}

\* process_user_data on a DataProcessor in state st (processed_count,
\* errors): the state after it, the value returned (ret holds the User, or
\* nothing for None) or the exception that leaves the method
Failed(st, msg) ==
  [processed_count |-> st.processed_count,
   errors |-> Append(st.errors, msg), ret |-> <<>>, raised |-> "none"]

process_user_data(st, user_data) ==
  LET missing == FirstMissing(user_data, <<"id", "name", "email">>)
  IN IF missing # ""
     THEN Failed(st, <<"Missing required field", missing>>)
     ELSE
       LET email_cleaned == strip(lower(user_data.email))
           id == int(user_data.id)
       IN IF ~validate_email(email_cleaned)
          THEN Failed(st, <<"Invalid email format", "email">>)
          ELSE IF id.raised \in Caught
          THEN Failed(st, <<id.raised, "id">>)
          ELSE IF id.raised # "none"
          THEN [processed_count |-> st.processed_count,
                errors |-> st.errors, ret |-> <<>>, raised |-> id.raised]
          ELSE [processed_count |-> st.processed_count + 1,
                errors |-> st.errors,
                ret |-> <<[id |-> id.value, name |-> strip(user_data.name),
                           email |-> email_cleaned, created_at |-> Now,
                           is_active |-> TRUE]>>,
                raised |-> "none"]

\* process_users_batch: the loop from record k on, valid_users so far; an
\* exception leaves the loop and the method, and valid_users is lost
RECURSIVE BatchFrom(_, _, _, _)
BatchFrom(st, users_data, k, valid_users) ==
  IF k > Len(users_data)
  THEN [processed_count |-> st.processed_count, errors |-> st.errors,
        ret |-> valid_users, raised |-> "none", seen |-> k - 1]
  ELSE LET r == process_user_data(st, users_data[k])
           after == [processed_count |-> r.processed_count,
                     errors |-> r.errors]
       IN IF r.raised # "none"
          THEN [processed_count |-> r.processed_count, errors |-> r.errors,
                ret |-> <<>>, raised |-> r.raised, seen |-> k]
          ELSE BatchFrom(after, users_data, k + 1, valid_users \o r.ret)

process_users_batch(st, users_data) == BatchFrom(st, users_data, 1, <<>>)

\* the batches handed to process_users_batch
RECURSIVE Batches(_)
Batches(n) ==
  IF n = 0 THEN {<<>>}
  ELSE Batches(n - 1) \cup
       {Append(b, u) : b \in {c \in Batches(n - 1) : Len(c) = n - 1},
                       u \in UserRecords}

Counters == [processed_count |-> processed_count, errors |-> errors]

\* one call of process_user_data
ProcessUserData ==
  /\ proc.calls < MaxDataCalls
  /\ \E user_data \in UserRecords :
       LET r == process_user_data(Counters, user_data)
       IN /\ processed_count' = r.processed_count
          /\ errors' = r.errors
          /\ proc' = [calls |-> proc.calls + 1, seen |-> proc.seen + 1,
                      op |-> "process_user_data", input |-> <<user_data>>,
                      before |-> Counters, ret |-> r.ret,
                      raised |-> r.raised]
  /\ UNCHANGED <<vars, history, calc, math, sieve>>

\* one call of process_users_batch
ProcessUsersBatch ==
  /\ proc.calls < MaxDataCalls
  /\ \E users_data \in Batches(MaxBatch) :
       LET r == process_users_batch(Counters, users_data)
       IN /\ processed_count' = r.processed_count
          /\ errors' = r.errors
          /\ proc' = [calls |-> proc.calls + 1, seen |-> proc.seen + r.seen,
                      op |-> "process_users_batch", input |-> users_data,
                      before |-> Counters, ret |-> r.ret,
                      raised |-> r.raised]
  /\ UNCHANGED <<vars, history, calc, math, sieve>>

\* one call of reset_statistics
ResetStatistics ==
  /\ proc.calls < MaxDataCalls
  /\ processed_count' = 0
  /\ errors' = <<>>
  /\ proc' = [calls |-> proc.calls + 1, seen |-> 0,
              op |-> "reset_statistics", input |-> <<>>,
              before |-> Counters, ret |-> <<>>, raised |-> "none"]
  /\ UNCHANGED <<vars, history, calc, math, sieve>>

NextData == ProcessUserData \/ ProcessUsersBatch \/ ResetStatistics

SpecData == InitLibrary /\ [][NextData]_allvars

\* ------------------------------------------------- calculator.py, gcd, lcm

MaxAbs == 4

\* Python's a % b for b # 0: the result has the sign of b
PyMod(a, b) == IF b > 0 THEN a % b ELSE -((-a) % (-b))

gcd_return_signed(x) == x
gcd_return(x) == Abs(x)

\* gcd(a, b) or lcm(a, b) is called; lcm returns 0 at once when a or b is 0
CallMath ==
  /\ math.pc = "idle"
  /\ \E fn \in {"gcd", "lcm"}, a \in -MaxAbs..MaxAbs, b \in -MaxAbs..MaxAbs :
       math' = IF fn = "lcm" /\ (a = 0 \/ b = 0)
               THEN [fn |-> fn, a |-> a, b |-> b, x |-> a, y |-> b,
                     pc |-> "done", result |-> 0]
               ELSE [fn |-> fn, a |-> a, b |-> b, x |-> a, y |-> b,
                     pc |-> "loop", result |-> 0]
  /\ UNCHANGED <<vars, history, calc, processed_count, errors, proc, sieve>>

\* gcd, one turn of "while b: a, b = b, a % b"
GcdStep ==
  /\ math.pc = "loop"
  /\ math.y # 0
  /\ math' = [math EXCEPT !.x = math.y, !.y = PyMod(math.x, math.y)]
  /\ UNCHANGED <<vars, history, calc, processed_count, errors, proc, sieve>>

\* gcd returns abs(a); lcm returns abs(a * b) // gcd(a, b)
GcdReturn ==
  /\ math.pc = "loop"
  /\ math.y = 0
  /\ math' = [math EXCEPT
                !.pc = "done",
                !.result = IF math.fn = "gcd" THEN gcd_return(math.x)
                           ELSE Abs(math.a * math.b) \div gcd_return(math.x)]
  /\ UNCHANGED <<vars, history, calc, processed_count, errors, proc, sieve>>

NextMath == CallMath \/ GcdStep \/ GcdReturn

\* a call that has started keeps running: the interpreter takes each step
SpecMath == InitLibrary /\ [][NextMath]_allvars /\ WF_allvars(NextMath)

\* --------------------------------- calculator.py, is_prime, find_primes_up_to

MaxPrime == 26

\* int(math.sqrt(number)) for number >= 0
IntSqrt(number) ==
  CHOOSE r \in 0..number : r * r <= number /\ number < (r + 1) * (r + 1)

\* the end of range(3, int(math.sqrt(number)) + 1, 2)
TrialEnd_short(number) == IntSqrt(number)
TrialEnd(number) == IntSqrt(number) + 1

\* is_prime, the loop "for i in range(3, end, 2)" from i on
RECURSIVE TrialFrom(_, _, _)
TrialFrom(number, i, end) ==
  IF i >= end THEN TRUE
  ELSE IF number % i = 0 THEN FALSE
  ELSE TrialFrom(number, i + 2, end)

is_prime(number) ==
  IF number < 2 THEN FALSE
  ELSE IF number = 2 THEN TRUE
  ELSE IF number % 2 = 0 THEN FALSE
  ELSE TrialFrom(number, 3, TrialEnd(number))

\* is_prime(number) is called and returns
CallIsPrime ==
  /\ sieve.pc = "idle"
  /\ \E number \in -MaxPrime..MaxPrime :
       sieve' = [fn |-> "is_prime", arg |-> number, num |-> 0,
                 primes |-> <<>>, pc |-> "done",
                 ret |-> <<is_prime(number)>>]
  /\ UNCHANGED <<vars, history, calc, processed_count, errors, proc, math>>

\* find_primes_up_to(limit) is called: [] at once when limit < 2
CallFindPrimes ==
  /\ sieve.pc = "idle"
  /\ \E limit \in -MaxPrime..MaxPrime :
       sieve' = IF limit < 2
                THEN [fn |-> "find_primes_up_to", arg |-> limit, num |-> 0,
                      primes |-> <<>>, pc |-> "done", ret |-> <<<<>>>>]
                ELSE [fn |-> "find_primes_up_to", arg |-> limit, num |-> 2,
                      primes |-> <<>>, pc |-> "loop", ret |-> <<>>]
  /\ UNCHANGED <<vars, history, calc, processed_count, errors, proc, math>>

\* find_primes_up_to, one turn of "for num in range(2, limit + 1)"
FindPrimesStep ==
  /\ sieve.pc = "loop"
  /\ sieve.num < sieve.arg + 1
  /\ sieve' = [sieve EXCEPT
                 !.num = sieve.num + 1,
                 !.primes = IF is_prime(sieve.num)
                            THEN Append(sieve.primes, sieve.num)
                            ELSE sieve.primes]
  /\ UNCHANGED <<vars, history, calc, processed_count, errors, proc, math>>

\* find_primes_up_to returns primes
FindPrimesReturn ==
  /\ sieve.pc = "loop"
  /\ sieve.num >= sieve.arg + 1
  /\ sieve' = [sieve EXCEPT !.pc = "done", !.ret = <<sieve.primes>>]
  /\ UNCHANGED <<vars, history, calc, processed_count, errors, proc, math>>

NextPrimes ==
  CallIsPrime \/ CallFindPrimes \/ FindPrimesStep \/ FindPrimesReturn

SpecPrimes == InitLibrary /\ [][NextPrimes]_allvars

\* ---------------------------------------------------------------- claims
\* positions of the rows of project i in a sequence of rows
RowsOf(rows, i) == {k \in 1..Len(rows) : rows[k][2] = KeyNames[i]}

\* the rows committed since the run started
NewRows == SubSeq(db.rows, Len(db0.rows) + 1, Len(db.rows))

\* the loop over SONAR_PROJECTS has ended
LoopOver == pc \in {"persist", "done", "crashed"} /\ setupResult # "none"

\* main() has returned or was left by an exception
Finished == pc \in {"done", "crashed"}

\* C1: when processing a project raises, the records of the projects that
\* became ready are all in the batch (the earlier ones stay, the later ones
\* are added), the raising project contributes none, every project is
\* processed before the loop ends, and the batch is handed to the persister
C1_FaultIsolation ==
  \A i \in 1..nproj :
    trace[i].outcome = "raised" =>
      /\ RowsOf(all_data, i) = {}
      /\ \A j \in 1..nproj :
           trace[j].outcome = "ready" => RowsOf(all_data, j) # {}
      /\ pc \in {"persist", "done", "crashed"} =>
           \A j \in 1..nproj : trace[j].outcome # "pending"
      /\ Finished /\ all_data # <<>> => handed = <<all_data>>

C1_Witness ==
  /\ pc = "done"
  /\ nproj >= 2
  /\ trace[1].outcome = "raised"
  /\ trace[2].outcome = "ready"
  /\ handed = <<all_data>>
  /\ Len(NewRows) = 1

\* C2: a project for which verify_project_exists returned false (no
\* component, a non-200 status, an exception) has no row in all_data, in a
\* batch handed to insert_sonar_data, in the open transaction or in the table
C2_NonExistentNeverPersisted ==
  \A i \in 1..nproj :
    trace[i].ex \in {"no_components", "non_200", "exception"} =>
      /\ RowsOf(all_data, i) = {}
      /\ \A b \in 1..Len(handed) : RowsOf(handed[b], i) = {}
      /\ RowsOf(pending, i) = {}
      /\ RowsOf(db.rows, i) = {}

C2_Witness ==
  /\ pc = "done"
  /\ nproj >= 2
  /\ trace[1].ex = "no_components"
  /\ trace[2].outcome = "ready"
  /\ Len(handed) = 1
  /\ Len(NewRows) = 1

\* C3: the record of a ready project is one row of 5 fixed fields followed
\* by one value per catalog metric in catalog order, each the value of the
\* response for that metric or None when the response lacks it
C3_RecordShape ==
  \A i \in 1..nproj :
    trace[i].outcome = "ready" =>
      /\ Cardinality(RowsOf(all_data, i)) = 1
      /\ \A k \in RowsOf(all_data, i) :
           /\ Len(all_data[k]) = 5 + Len(metrics)
           /\ all_data[k][1] = RepoNames[i]
           /\ all_data[k][2] = KeyNames[i]
           /\ \A m \in 1..Len(metrics) :
                all_data[k][5 + m] =
                  IF metrics[m] \in DOMAIN trace[i].dict
                  THEN trace[i].dict[metrics[m]]
                  ELSE NoValue

C3_Witness ==
  /\ nproj = 1
  /\ trace[1].outcome = "ready"
  /\ DOMAIN trace[1].dict = {"coverage", ExtraKey}
  /\ all_data[1][6] = "87.5"
  /\ all_data[1][7] = NoValue
  /\ Len(all_data[1]) = 7

\* what a failed access verification leaves behind: nothing
NothingTouched ==
  /\ connects = 0
  /\ conn = "none"
  /\ stmts = 0
  /\ commits = 0
  /\ schemaCalls = 0
  /\ calls = <<>>
  /\ \A i \in 1..nproj : trace[i].outcome = "pending"
  /\ handed = <<>>
  /\ pending = <<>>
  /\ db = db0

\* C4 as claimed: every run verifies access exactly once, before any
\* project, and a failed verification ends the run with nothing touched
C4_Original ==
  /\ Finished => verifyCount = 1
  /\ calls # <<>> => verifyCount = 1 /\ access = "ok"
  /\ access \notin {"none", "ok"} => pc = "done" /\ NothingTouched

\* C4 as amended: a run whose required variables are all set verifies access
\* exactly once, before any project; a run that finds one missing ends
\* without verifying; a failed verification ends the run with nothing touched
C4_AccessVerification ==
  /\ verifyCount <= 1
  /\ ConfigComplete(config) /\ pc \notin {"config", "verify"} =>
       verifyCount = 1
  /\ ~ConfigComplete(config) => verifyCount = 0 /\ NothingTouched
  /\ calls # <<>> \/ idx > 1 => verifyCount = 1 /\ access = "ok"
  /\ access \notin {"none", "ok"} => pc = "done" /\ NothingTouched

C4_Witness ==
  /\ access = "org_not_found"
  /\ verifyCount = 1
  /\ pc = "done"
  /\ nproj = 2
  /\ db0.exists

ZeroReady == \A i \in 1..nproj : trace[i].outcome # "ready"

\* C6 as claimed: a run in which no project becomes ready completes without
\* a database statement and without a commit
C6_Original ==
  pc = "done" /\ ZeroReady => stmts = 0 /\ commits = 0 /\ conn = "none"

\* C6 as amended: a run that reaches the end of the loop with no ready
\* project completes without calling insert_sonar_data and adds no row; the
\* only statements are the one or two of setup_database and the only commit
\* is the one of setup_database
C6_EmptyBatch ==
  LoopOver /\ ZeroReady =>
    /\ pc # "crashed"
    /\ all_data = <<>>
    /\ handed = <<>>
    /\ pending = <<>>
    /\ db.rows = db0.rows
    /\ stmts \in {1, 2}
    /\ commits = IF setupResult = "committed" THEN 1 ELSE 0
    /\ pc = "done" => conn = "closed"

C6_Witness ==
  /\ pc = "done"
  /\ nproj = 2
  /\ trace[1].outcome = "not_exists"
  /\ trace[2].outcome = "no_analysis"
  /\ stmts = 2
  /\ commits = 1

\* the requests C7 is about
PerProjectFaults == {"exists", "analysis", "measures"}

\* C7 as claimed: when exactly one project suffers a remote failure on its
\* existence check, its latest-analysis query or its measures fetch, and the
\* other projects are ready, the run persists N-1 rows, none of them for the
\* failing project
C7_OneFaultOneSkip ==
  \A i \in 1..nproj :
    ( /\ pc = "done"
      /\ LoopOver
      /\ trace[i].fault \in PerProjectFaults
      /\ \A j \in 1..nproj \ {i} :
           trace[j].fault = "none" /\ trace[j].outcome = "ready" )
    => /\ Len(NewRows) = nproj - 1
       /\ RowsOf(NewRows, i) = {}


\* C8 as claimed: on the table setup_database creates, two upserts of the
\* same (project_key, analysis_date) with different coverage or bugs leave
\* exactly one row for that key, holding the values of the second
C8_UpsertOnSetupTable ==
  ( /\ db0 = SetupStatements(NoTable)
    /\ Len(writes) = 2
    /\ writes[1].commit_ok /\ writes[2].commit_ok
    /\ writes[1].date = writes[2].date
    /\ \/ writes[1].coverage # writes[2].coverage
       \/ writes[1].bugs # writes[2].bugs )
  => LET hit == Conflicts(db, SONAR_PROJECT_KEY, writes[2].date)
     IN /\ Cardinality(hit) = 1
        /\ \A k \in hit : /\ db.rows[k][6] = writes[2].coverage
                          /\ db.rows[k][7] = writes[2].bugs

\* C9: calling setup_database again leaves the table and the index as the
\* first committed call left them; no call changes the columns or the rows
\* of a table that already exists; a call that fails changes nothing
C9_SetupIdempotent ==
  /\ dbFirst.exists => db = dbFirst
  /\ ~dbFirst.exists => db = db0
  /\ db.rows = db0.rows
  /\ db0.exists =>
       /\ db.columns = db0.columns
       /\ db.not_null = db0.not_null
       /\ db.unique = db0.unique

C9_Witness ==
  /\ db0 = NoTable
  /\ schemaCalls >= 2
  /\ commits >= 2
  /\ db = SetupStatements(NoTable)

\* a stored metric value that is a zero
IsZero(v) == v \in {"0", "0.0"}

\* the last committed write of sonar_to_db.py for a date
LastWrite(date) ==
  LET ks == {k \in 1..Len(writes) :
               writes[k].committed /\ writes[k].date = date}
  IN CHOOSE k \in ks : \A j \in ks : j <= k

\* C10 as claimed: in both scripts a metric the response lacks is stored as
\* NULL, so a stored zero means the remote service reported the metric
C10_AbsentIsNull ==
  /\ \A i \in 1..nproj : \A k \in RowsOf(all_data, i) :
       \A m \in 1..Len(metrics) :
         IsZero(all_data[k][5 + m]) => metrics[m] \in DOMAIN trace[i].dict
  /\ \A k \in Len(db0.rows) + 1..Len(db.rows) :
       pc = "script" =>
         \A m \in 1..Len(metrics) :
           IsZero(db.rows[k][5 + m]) =>
             metrics[m] \in writes[LastWrite(db.rows[k][3])].reported


\* C11 as claimed: a project whose latest analysis has a date that cannot be
\* parsed (malformed, or missing from the entry) is neither skipped nor the
\* cause of an exception: it gets a record whose analysis date is the
\* current time
C11_DateFallback ==
  \A i \in 1..nproj :
    trace[i].date \in {"not-a-date", NoValue} /\ trace[i].qg # "raise" =>
      /\ trace[i].outcome = "ready"
      /\ RowsOf(all_data, i) # {}
      /\ \A k \in RowsOf(all_data, i) : all_data[k][3] = Now

\* C12 as claimed: a quality gate request that fails (network error, non-2xx
\* status, a body that cannot be read) raises nothing: the record of the
\* project is built with the status ERROR or UNKNOWN and the metric values
\* that were fetched
C12_QualityGateAdvisory ==
  \A i \in 1..nproj :
    trace[i].qg \in {"request_error", "raise"} /\ trace[i].date # NoValue =>
      /\ trace[i].outcome = "ready"
      /\ RowsOf(all_data, i) # {}
      /\ \A k \in RowsOf(all_data, i) :
           /\ all_data[k][5] \in {"ERROR", "UNKNOWN"}
           /\ \A m \in 1..Len(metrics) :
                all_data[k][5 + m] = DictGet(trace[i].dict, metrics[m])


\* C13 as claimed: a run opens at most one connection and no run ends with
\* a connection it opened still open
C13_ConnectionClosed ==
  /\ connects <= 1
  /\ Finished => conn \in {"none", "closed"}

\* C14 as claimed: when a required setting is absent (token, organization,
\* a database setting) the run ends before a request is sent and before a
\* connection is opened
C14_FailFast ==
  ~(config.SONAR_TOKEN /\ config.SONAR_ORGANIZATION /\ config.DB) =>
    /\ verifyCount = 0
    /\ calls = <<>>
    /\ connects = 0

\* C15 as claimed: a batch is handed to insert_sonar_data only after
\* setup_database committed in this run, and a setup_database that was
\* rolled back ends the run with no insert and nothing committed
C15_SchemaBeforeInsert ==
  /\ handed # <<>> => setupResult = "committed"
  /\ setupResult = "rolled_back" =>
       handed = <<>> /\ commits = 0 /\ db.rows = db0.rows

\* positions of the rows of a (project_key, analysis_date) pair
PairRows(rows, key, date) ==
  {k \in 1..Len(rows) : rows[k][2] = key /\ rows[k][3] = date}

\* C16 as claimed: after any sequence of runs the table holds at most one
\* row for each (project_key, analysis_date) pair (rows dated with the
\* clock of their run aside: their dates differ from run to run)
C16_Original ==
  \A k \in 1..Len(db.rows) :
    db.rows[k][3] # Now =>
      Cardinality(PairRows(db.rows, db.rows[k][2], db.rows[k][3])) = 1

\* C16 as amended: each run adds at most one row for each
\* (project_key, analysis_date) pair, so after n runs the table holds at
\* most n rows for a pair
C16_OneRowPerRun ==
  /\ \A k \in 1..Len(NewRows) :
       Cardinality(PairRows(NewRows, NewRows[k][2], NewRows[k][3])) = 1
  /\ \A k \in 1..Len(db.rows) :
       Cardinality(PairRows(db.rows, db.rows[k][2], db.rows[k][3]))
         <= runs.no

C16_Witness ==
  /\ runs.no = 2
  /\ pc = "done"
  /\ Len(NewRows) = 1
  /\ NewRows[1][3] = "2024-01-01T10:00:00+00:00"
  /\ Cardinality(PairRows(db.rows, NewRows[1][2], NewRows[1][3])) = 2

\* C17: get_history returns one entry per operation that returned since the
\* last clear_history (or construction), in call order; a divide by 0 and a
\* square_root of a negative number raise ValueError and leave the history
\* unchanged; clear_history leaves the history empty
C17_HistoryLog ==
  /\ Len(get_history(history)) = Len(calc.returned)
  /\ \A k \in 1..Len(calc.returned) :
       /\ get_history(history)[k].op = calc.returned[k].op
       /\ get_history(history)[k].args = calc.returned[k].args
  /\ (calc.last.op = "divide" /\ calc.last.args[2] = 0) =>
       calc.last.error = "ValueError" /\ history = calc.last.before
  /\ (calc.last.op = "square_root" /\ calc.last.args[1] < 0) =>
       calc.last.error = "ValueError" /\ history = calc.last.before
  /\ calc.last.op = "clear_history" => get_history(history) = <<>>

\* an operation returned, then a divide by 0 raised: the history keeps the
\* one entry
C17_Witness ==
  /\ calc.last.op = "divide"
  /\ calc.last.args[2] = 0
  /\ calc.calls = MaxCalcCalls
  /\ Len(calc.returned) = 1
  /\ Len(history) = 1

\* the records of the last call, each handed to process_user_data
Handed == Len(proc.input)

\* C18: processed_count + len(errors) equals the number of user records
\* processed since construction or the last reset_statistics; each processed
\* record either returns a User and adds one to processed_count (errors
\* unchanged) or returns None and appends exactly one error (processed_count
\* unchanged); reset_statistics leaves processed_count 0 and errors empty
C18_CountersAccount ==
  /\ processed_count + Len(errors) = proc.seen
  /\ proc.op = "process_user_data" =>
       \/ /\ Len(proc.ret) = 1
          /\ proc.raised = "none"
          /\ processed_count = proc.before.processed_count + 1
          /\ errors = proc.before.errors
       \/ /\ proc.ret = <<>>
          /\ proc.raised = "none"
          /\ processed_count = proc.before.processed_count
          /\ Len(errors) = Len(proc.before.errors) + 1
          /\ SubSeq(errors, 1, Len(proc.before.errors)) = proc.before.errors
  /\ proc.op = "process_users_batch" =>
       (processed_count - proc.before.processed_count)
         + (Len(errors) - Len(proc.before.errors)) = Handed
  /\ proc.op = "reset_statistics" => processed_count = 0 /\ errors = <<>>

\* a valid record as the contract words it: id, name and a well-formed email
HasIdNameEmail(user_data) ==
  /\ {"id", "name", "email"} \subseteq DOMAIN user_data
  /\ validate_email(strip(lower(user_data.email)))

\* the User built from a record
UserOf(user_data) ==
  [id |-> int(user_data.id).value, name |-> strip(user_data.name),
   email |-> strip(lower(user_data.email)), created_at |-> Now,
   is_active |-> TRUE]

\* C19: process_users_batch returns exactly the users built from the valid
\* input records (those with id, name and a well-formed email), in input
\* order; an invalid record never prevents later records from being
\* processed; the length of the returned list equals the increase of
\* processed_count during the call
C19_BatchReturnsValid ==
  proc.op = "process_users_batch" =>
    LET valid == SelectSeq(proc.input, HasIdNameEmail)
    IN /\ proc.raised = "none"
       /\ proc.ret = [k \in 1..Len(valid) |-> UserOf(valid[k])]
       /\ Len(proc.ret) = processed_count - proc.before.processed_count

\* a call of gcd or lcm has returned
MathDone == math.pc = "done"

\* C20: gcd(a, b) terminates and returns the non-negative greatest common
\* divisor of |a| and |b| (gcd(0, b) = |b|); lcm(a, b) returns 0 when a or b
\* is 0 and otherwise the positive least common multiple, so that
\* gcd(a, b) * lcm(a, b) = |a * b|
C20_GcdLcm ==
  /\ (math.pc = "loop") ~> MathDone
  /\ [](MathDone /\ math.fn = "gcd" =>
          /\ math.result >= 0
          /\ math.result = GreatestCommonDivisor(Abs(math.a), Abs(math.b))
          /\ (math.a = 0 => math.result = Abs(math.b)))
  /\ [](MathDone /\ math.fn = "lcm" =>
          /\ (math.a = 0 \/ math.b = 0) => math.result = 0
          /\ (math.a # 0 /\ math.b # 0) =>
               /\ math.result > 0
               /\ math.result = LeastCommonMultiple(Abs(math.a), Abs(math.b))
          /\ GreatestCommonDivisor(Abs(math.a), Abs(math.b)) * math.result
               = Abs(math.a * math.b))

\* lcm of a negative and a positive number has returned
C20_Witness ==
  /\ MathDone
  /\ math.fn = "lcm"
  /\ math.a < 0
  /\ math.b > 1
  /\ math.result > 0

\* n is prime, from the definition: n >= 2 and no divisor strictly between
\* 1 and n
NoProperDivisor(n) == n >= 2 /\ \A d \in 2..(n - 1) : n % d # 0

\* C21: is_prime(n) is true exactly when n >= 2 and n has no divisor d with
\* 1 < d < n; find_primes_up_to(limit) returns, in ascending order without
\* duplicates, exactly the primes p with 2 <= p <= limit (the empty list when
\* limit < 2)
C21_Primes ==
  /\ (sieve.pc = "done" /\ sieve.fn = "is_prime") =>
       sieve.ret[1] = NoProperDivisor(sieve.arg)
  /\ (sieve.pc = "done" /\ sieve.fn = "find_primes_up_to") =>
       LET primes == sieve.ret[1]
       IN /\ \A j, k \in 1..Len(primes) : j < k => primes[j] < primes[k]
          /\ {primes[k] : k \in 1..Len(primes)}
               = {p \in 2..sieve.arg : NoProperDivisor(p)}
          /\ sieve.arg < 2 => primes = <<>>

\* find_primes_up_to has returned a list that passed over the odd squares 9
\* and 25
C21_Witness ==
  /\ sieve.pc = "done"
  /\ sieve.fn = "find_primes_up_to"
  /\ sieve.arg >= 25
  /\ Len(sieve.ret[1]) >= 5

\* the requests sent for project i, in the order they were sent
RequestsOf(i) ==
  LET OfProject(c) == c[2] = i
      cs == SelectSeq(calls, OfProject)
  IN [k \in 1..Len(cs) |-> cs[k][1]]

\* the requests of process_project in the order of its code
RequestOrder == <<"exists", "analysis", "measures", "quality_gate">>

\* the loop has dealt with project i
Processed(i) == trace[i].outcome # "pending"

\* C22: the requests of a project are sent in the order existence check,
\* latest analysis, measures, quality gate, each at most once; the
\* latest-analysis query is sent only after the existence check returned
\* true, the measures and quality-gate requests only after an analysis was
\* found; a project skipped at the existence check or for want of an analysis
\* sends no later request and contributes no record; a processed project
\* ends skipped (no record) or ready (one record), never both
C22_ProjectLifecycle ==
  \A i \in 1..nproj :
    LET cs == RequestsOf(i)
    IN /\ Len(cs) <= Len(RequestOrder)
       /\ cs = SubSeq(RequestOrder, 1, Len(cs))
       /\ Processed(i) <=> cs # <<>>
       /\ Len(cs) >= 2 => trace[i].ex = "components"
       /\ Len(cs) >= 3 => trace[i].an = "analyses"
       /\ (Processed(i) /\ trace[i].ex # "components") =>
            trace[i].outcome = "not_exists"
       /\ trace[i].an \in {"no_analyses", "request_error"} =>
            trace[i].outcome = "no_analysis"
       /\ trace[i].outcome = "not_exists" =>
            cs = <<"exists">> /\ RowsOf(all_data, i) = {}
       /\ trace[i].outcome = "no_analysis" =>
            cs = <<"exists", "analysis">> /\ RowsOf(all_data, i) = {}
       /\ Processed(i) =>
            Cardinality(RowsOf(all_data, i))
              = IF trace[i].outcome = "ready" THEN 1 ELSE 0

\* a project without an analysis is skipped after two requests and the next
\* one becomes ready after four
C22_Witness ==
  /\ pc = "done"
  /\ nproj = 2
  /\ trace[1].an = "no_analyses"
  /\ trace[2].outcome = "ready"
  /\ RequestsOf(1) = <<"exists", "analysis">>
  /\ RequestsOf(2) = RequestOrder
  /\ Len(all_data) = 1

\* the commits of setup_database in this run
SetupCommits == IF setupResult = "committed" THEN 1 ELSE 0

\* C23 as claimed: no schema statement and no insert is executed before the
\* last configured project has been processed; the schema manager and the
\* persister are each invoked at most once
C23_Original ==
  /\ stmts > 0 => \A i \in 1..nproj : Processed(i)
  /\ schemaCalls <= 1
  /\ Len(handed) <= 1

\* C23 as amended: setup_database is called once, before the first project
\* is processed; insert_sonar_data is called at most once, after the last
\* project has been processed, with the records of all ready projects; it
\* commits once when it succeeds and not at all when it raises
C23_SetupCollectPersist ==
  /\ schemaCalls <= 1
  /\ Len(handed) <= 1
  /\ (calls # <<>> \/ \E i \in 1..nproj : Processed(i)) =>
       schemaCalls = 1 /\ setupResult # "none"
  /\ handed # <<>> =>
       /\ \A i \in 1..nproj : Processed(i)
       /\ handed[1] = all_data
       /\ \A i \in 1..nproj :
            Cardinality(RowsOf(handed[1], i))
              = IF trace[i].outcome = "ready" THEN 1 ELSE 0
  /\ commits - SetupCommits = IF handed # <<>> /\ pc = "done" THEN 1 ELSE 0
  /\ (handed # <<>> /\ pc = "done") => NewRows = handed[1]

\* both projects became ready and one insert committed both records after
\* the commit of setup_database
C23_Witness ==
  /\ pc = "done"
  /\ nproj = 2
  /\ \A i \in 1..nproj : trace[i].outcome = "ready"
  /\ Len(handed) = 1
  /\ Len(NewRows) = 2
  /\ commits = 2

\* the place in SONAR_PROJECTS of the project a row belongs to
ProjectOf(row) == CHOOSE i \in 1..Len(KeyNames) : KeyNames[i] = row[2]

\* the rows follow the order of SONAR_PROJECTS, one row a project at most
InProjectOrder(rows) ==
  \A j, k \in 1..Len(rows) : j < k => ProjectOf(rows[j]) < ProjectOf(rows[k])

\* C24: every request for project i is sent before any request for project
\* i+1; the records of all_data and of the batch handed to insert_sonar_data
\* are in the order of their projects in SONAR_PROJECTS, at most one record
\* for each configured project
C24_Sequential ==
  /\ \A j, k \in 1..Len(calls) : j < k => calls[j][2] <= calls[k][2]
  /\ \A j \in 1..Len(calls) : calls[j][2] < idx
  /\ InProjectOrder(all_data)
  /\ \A h \in 1..Len(handed) : InProjectOrder(handed[h])
  /\ \A i \in 1..nproj : Cardinality(RowsOf(all_data, i)) <= 1

\* two ready projects: eight requests, and two records in order in the batch
C24_Witness ==
  /\ nproj = 2
  /\ Len(calls) = 8
  /\ Len(handed) = 1
  /\ Len(handed[1]) = 2
  /\ handed[1][1][2] = KeyNames[1]
  /\ handed[1][2][2] = KeyNames[2]

\* the message printed for a project that ended this way
ReasonFor(outcome) ==
  CASE outcome = "not_exists" -> "does not exist"
    [] outcome = "no_analysis" -> "No analysis found"
    [] outcome = "raised" -> "Error processing project"
    [] OTHER -> "none"

\* project i has exactly the skip message of its outcome, with its own key,
\* when it contributed no record, and no skip message when it contributed one
ReasonMatches(i) ==
  IF RowsOf(all_data, i) = {}
  THEN trace[i].reasons = <<<<ReasonFor(trace[i].outcome), KeyNames[i]>>>>
       /\ ReasonFor(trace[i].outcome) # "none"
  ELSE trace[i].reasons = <<>>

\* C25 as claimed: at the end of every run each configured project that
\* contributed no record has a recorded reason that names it, and each
\* project that contributed a record has none
C25_Original ==
  Finished => \A i \in 1..nproj : ReasonMatches(i)

\* C25 as amended: every project the loop has processed has a recorded
\* reason that names it when it contributed no record and none when it
\* contributed one, and a run that got as far as the loop ends with every
\* configured project processed
C25_NoSilentSkip ==
  /\ \A i \in 1..nproj : Processed(i) => ReasonMatches(i)
  /\ (Finished /\ setupResult # "none") => \A i \in 1..nproj : Processed(i)

\* a run ends with one project skipped for an exception, one for not
\* existing, each with its message
C25_Witness ==
  /\ Finished
  /\ nproj = 2
  /\ trace[1].reasons = <<<<"Error processing project", KeyNames[1]>>>>
  /\ trace[2].reasons = <<<<"does not exist", KeyNames[2]>>>>
  /\ all_data = <<>>

====
